---------------------------- MODULE Spec2Model ----------------------------
(***************************************************************************)
(* A model of the session reconstruction, merge, attribution and report    *)
(* code of time-tracker-integration.                                       *)
(*                                                                         *)
(* Sources modelled:                                                       *)
(*   src/src/base_extractor.py            Session, merge_consecutive_sessions *)
(*   src/find_claude_sessions_enhanced.py calculate_session_duration and   *)
(*                                        the cross-source merge pass      *)
(*   src/src/cursor_realtime_extractor.py dedup and _group_into_sessions   *)
(*   src/src/claude_extractor.py          activity blocks, extract_sessions *)
(*   src/src/git_analyzer.py              commit index and attribution     *)
(*   src/src/time_tracker.py              analyze_sessions and the report  *)
(*   src/scripts/parallel_extract.py      the parallel runner              *)
(*   src/src/git_extractor.py             the external commands of Git     *)
(*                                                                         *)
(* Time is an integer.  In the parts that model base_extractor.py, the two *)
(* extractors and the tracker the unit is one minute; in the part that     *)
(* models find_claude_sessions_enhanced.py the unit is one second, because *)
(* that file truncates seconds to minutes and compares seconds with 900.   *)
(***************************************************************************)
EXTENDS Integers, Sequences, FiniteSets, TLC

VARIABLES
    pc,          \* position of the program that is running
    sessions,    \* the Session objects handed to merge_consecutive_sessions
    given,       \* history: the field values of those objects when handed over
    threshold,   \* threshold_minutes of the call
    merged,      \* the list merge_consecutive_sessions returned (object indices)
    first_call,  \* the objects and the list as the first call left them
    second,      \* the list a second call returned (object indices)
    interactions,      \* calculate_session_duration: the interaction list
    max_gap_minutes,   \* calculate_session_duration: its second argument
    duration_info,     \* calculate_session_duration: the dictionary returned
    files,             \* find_claude_sessions_enhanced: the JSONL files found
    all_sessions,      \* find_claude_sessions_enhanced: the per-file session dicts
    found,             \* find_claude_sessions_enhanced: the dictionary returned
    activities,        \* CursorRealtimeExtractor: the (mtime, project) pairs found
    jsonl,             \* ClaudeExtractor: the lines of one JSONL file
    entries,           \* ClaudeExtractor: the entries parsed from the JSONL files
    analysis,          \* config['analysis']: block size and merge threshold
    extracted,         \* the list extract_sessions returned
    fetched,           \* GitAnalyzer: the commits the configured repositories yield
    commits_cache,     \* GitAnalyzer.commits_cache
    window,            \* config['analysis']: the commit window, in hours
    tracked,           \* TimeTracker: the sessions extract_all_sessions returned
    sessions_df,       \* TimeTracker: the rows analyze_sessions returned
    report,            \* TimeTracker: what generate_report aggregated
    asked,             \* GitAnalyzer: the date ranges get_all_commits was called with
    answered,          \* GitAnalyzer: the frames those calls returned
    sources,           \* what each source does when asked for its sessions
    workers,           \* parallel_extract: the state of each extraction task
    yielded,           \* parallel_extract: the futures as_completed yielded
    gathered,          \* parallel_extract: main's list all_sessions
    writers            \* parallel_extract: the threads that wrote all_sessions

baseVars == <<sessions, given, threshold, merged, first_call, second>>

durationVars == <<interactions, max_gap_minutes, duration_info>>

enhancedVars == <<files, all_sessions, found>>

extractVars == <<activities, jsonl, entries, analysis, extracted>>

gitVars == <<asked, answered>>

runVars == <<sources, workers, yielded, gathered, writers>>

trackVars ==
    <<fetched, commits_cache, window, tracked, sessions_df, report, runVars>>

vars ==
    <<pc, baseVars, durationVars, enhancedVars, extractVars, trackVars, gitVars>>

\* Python's None where the other values are strings (a project, a repository).
None == "None"

\* Python's None where the other values are records or lists.
Nothing == [none |-> TRUE]

(***************************************************************************)
(* Generic helpers.                                                        *)
(***************************************************************************)
Max(a, b) == IF a >= b THEN a ELSE b

RECURSIVE SumSeq(_)
SumSeq(s) == IF s = <<>> THEN 0 ELSE Head(s) + SumSeq(Tail(s))

\* The indices of a list in the order a stable sort gives them, keys being
\* the list of the sort keys.
StableOrder(keys) ==
    [k \in 1..Len(keys) |->
        CHOOSE i \in DOMAIN keys :
            k = 1 + Cardinality({j \in DOMAIN keys :
                                   \/ keys[j] < keys[i]
                                   \/ keys[j] = keys[i] /\ j < i})]

\* The position of x in a sequence without repetitions.
PosIn(seq, x) == CHOOSE k \in 1..Len(seq) : seq[k] = x

\* All sequences over S of length 0..n.
SeqsUpTo(S, n) == UNION {[1..k -> S] : k \in 0..n}

(***************************************************************************)
(* Bounds of the model.                                                    *)
(***************************************************************************)
MaxSessions == 3

\* The instants, in minutes, of the sessions handed to merge_consecutive_sessions.
Minutes == {0, 1, 2}

Projects == {"alpha", "beta"}

Thresholds == {0, 1}

Counts == {1, 2}

MaxInteractions == 3

\* The timestamps, in seconds, of the interactions handed to
\* calculate_session_duration: wall-clock times around the 10- and 15-minute
\* gaps, written with one of two UTC offsets, and one string that does not parse.
WallClocks == {0, 30, 600, 601, 900, 901, 3000, 3600, 5000}

Offsets == {0, 3600}

MaxGapChoices == {10, 15}

MaxFiles == 3

MaxCommits == 3

MaxTracked == 2

Repositories == {"repoX", "repoY"}

\* The commit window of config['analysis'], in hours.
WindowChoices ==
    {[commit_window_hours_before |-> 2, commit_window_hours_after |-> 1]}

\* The starts, in minutes, of the sessions handed to analyze_sessions, and the
\* commit timestamps.  With two hours before and one hour after, minute 0 is
\* the first minute of the window of a session that starts at 120 and the
\* minute before the window of one that starts at 121; minute 181 is the
\* minute after the window of the former and the last minute of the window
\* of the latter.
TrackedStarts == {120, 121}

CommitTimes == {0, 181}

MaxReturned == 1

\* The calls of get_all_commits on one analyzer.
MaxCalls == 2

\* The date ranges of those calls, in minutes; None is no range.
DateRanges ==
    {[none |-> TRUE], [since |-> 0, until |-> 100], [since |-> 100, until |-> 200]}

MaxLines == 3

MaxActivities == 3

\* The modification times, in minutes, the Cursor extractor finds.
ActivityTimes == {0, 20, 31, 62, 100}

MaxEntries == 3

\* The timestamps, in minutes, of the Claude entries.
EntryTimes == {0, 3, 5, 11, 16}

\* config['analysis']: block_size_minutes and merge_threshold_minutes.
AnalysisChoices ==
    {[block_size_minutes |-> 5, merge_threshold_minutes |-> 0],
     [block_size_minutes |-> 5, merge_threshold_minutes |-> 5]}

\* The interaction timestamps of one file, all written in UTC.
FileStampLists ==
    {<<0>>, <<600>>, <<900>>, <<960>>, <<0, 900>>, <<600, 960>>, <<0, 960>>}

(***************************************************************************)
(* base_extractor.py: Session.  A session is an object; the model keeps    *)
(* the objects of one call in a sequence and refers to them by index, so   *)
(* that an assignment through one reference is seen through every other.   *)
(* metrics is the mapping the extractors fill; its numeric entries are all *)
(* treated alike by the code, and the model keeps one, interactions.       *)
(***************************************************************************)
Session(start, end, service, project, count) ==
    [start |-> start, end |-> end, service |-> service,
     project |-> project, interactions |-> count]

SessionValues ==
    {Session(s, e, "Claude", p, n) :
        s \in Minutes, e \in Minutes, p \in Projects, n \in Counts}

WellFormedSessions == {x \in SessionValues : x.end >= x.start}

(***************************************************************************)
(* sorted(sessions, key=lambda s: s.start): Python's sort is stable.  The  *)
(* result is the list of object indices in sorted order.                   *)
(***************************************************************************)
RankByStart(objs, i) ==
    1 + Cardinality({j \in DOMAIN objs :
                        \/ objs[j].start < objs[i].start
                        \/ objs[j].start = objs[i].start /\ j < i})

\* Line 68 without the sort: what C22 tells apart from the code.
SortedByStartSkipped(objs) == [k \in 1..Len(objs) |-> k]

SortedByStart(objs) ==
    [k \in 1..Len(objs) |-> CHOOSE i \in DOMAIN objs : RankByStart(objs, i) = k]

(***************************************************************************)
(* merge_consecutive_sessions, lines 72-75: the test that decides whether  *)
(* the next session is absorbed into the current one.  time_gap is in      *)
(* minutes, as is the threshold.                                           *)
(***************************************************************************)
TimeGap(current, session) == session.start - current.end

\* Line 75 with the gap taken from end to end: what C11 tells apart from the
\* code.
ShouldMergeEndToEnd(current, session, threshold_minutes) ==
    /\ session.end - current.end <= threshold_minutes
    /\ session.project = current.project

\* Line 75 with < for <=: what C1 tells apart from the code.
ShouldMergeStrict(current, session, threshold_minutes) ==
    /\ TimeGap(current, session) < threshold_minutes
    /\ session.project = current.project

ShouldMerge(current, session, threshold_minutes) ==
    /\ TimeGap(current, session) <= threshold_minutes
    /\ session.project = current.project

(***************************************************************************)
(* merge_consecutive_sessions, lines 76-81: the absorption.  current is    *)
(* one of the caller's objects, and it is assigned in place.               *)
(***************************************************************************)
\* Lines 77-81 without the sum of the metrics: what C3 tells apart from the code.
AbsorbDropMetrics(current, session) ==
    [current EXCEPT !.end = session.end]

Absorb(current, session) ==
    [current EXCEPT !.end = session.end,
                    !.interactions = @ + session.interactions]

(***************************************************************************)
(* merge_consecutive_sessions, lines 70-87: the scan over sessions[1:].    *)
(* order is the sorted list of object indices, k the position of the next  *)
(* session, cur the index of the current object, out the list built so far.*)
(* The result holds the objects after the call and the returned list.      *)
(***************************************************************************)
RECURSIVE MergeScan(_, _, _, _, _, _)
MergeScan(objs, order, k, cur, out, threshold_minutes) ==
    IF k > Len(order)
    THEN [objs |-> objs, out |-> Append(out, cur)]
    ELSE LET nxt == order[k] IN
         IF ShouldMerge(objs[cur], objs[nxt], threshold_minutes)
         THEN MergeScan([objs EXCEPT ![cur] = Absorb(objs[cur], objs[nxt])],
                        order, k + 1, cur, out, threshold_minutes)
         ELSE MergeScan(objs, order, k + 1, nxt, Append(out, cur),
                        threshold_minutes)

merge_consecutive_sessions(objs, threshold_minutes) ==
    IF objs = <<>>
    THEN [objs |-> objs, out |-> <<>>]
    ELSE LET order == SortedByStart(objs) IN
         MergeScan(objs, order, 2, order[1], <<>>, threshold_minutes)

\* The sessions a returned list of indices denotes.
Deref(objs, out) == [i \in 1..Len(out) |-> objs[out[i]]]

\* merge_consecutive_sessions called with a list of references to some of the
\* objects, no object twice: the objects after the call, and the returned
\* list as indices of objs.
merge_referenced(objs, refs, threshold_minutes) ==
    LET r == merge_consecutive_sessions(Deref(objs, refs), threshold_minutes)
    IN  [objs |-> [i \in DOMAIN objs |->
                      IF \E k \in DOMAIN refs : refs[k] = i
                      THEN r.objs[PosIn(refs, i)]
                      ELSE objs[i]],
         out |-> [b \in DOMAIN r.out |-> refs[r.out[b]]]]

(***************************************************************************)
(* find_claude_sessions_enhanced.py.  The unit of time is one second.      *)
(*                                                                         *)
(* A timestamp string is modelled by what the code does with it: it is     *)
(* compared as a string (the sort keys of lines 68-69 and 305) and it is   *)
(* parsed by datetime.fromisoformat (lines 80, 316-317).  local is the     *)
(* wall-clock time the string spells, off the UTC offset it ends with, and *)
(* valid whether fromisoformat accepts it.  Strings of one layout compare  *)
(* by wall-clock time first and by the offset suffix second.  All strings  *)
(* carry an offset: a list that mixes naive and aware timestamps makes the *)
(* subtraction of line 88 raise, and is not modelled.                      *)
(***************************************************************************)
Stamp(local, off, valid) == [local |-> local, off |-> off, valid |-> valid]

StringLess(a, b) ==
    \/ a.local < b.local
    \/ a.local = b.local /\ a.off < b.off

\* datetime.fromisoformat(ts_str.replace('Z', '+00:00')): an aware datetime.
FromIsoFormat(stamp) == [utc |-> stamp.local - stamp.off, off |-> stamp.off]

\* datetime.isoformat(): the string of an aware datetime.
IsoFormat(dt) == Stamp(dt.utc + dt.off, dt.off, TRUE)

(***************************************************************************)
(* sorted(interactions, key=lambda x: x.get('timestamp', '')): a stable    *)
(* sort by the timestamp string.                                           *)
(***************************************************************************)
RankByString(stamps, i) ==
    1 + Cardinality({j \in DOMAIN stamps :
                        \/ StringLess(stamps[j], stamps[i])
                        \/ ~StringLess(stamps[i], stamps[j]) /\ j < i})

SortedByTimestamp(stamps) ==
    [k \in 1..Len(stamps) |->
        stamps[CHOOSE i \in DOMAIN stamps : RankByString(stamps, i) = k]]

\* min() and max() of a list of datetimes: the first of the equal ones.
MinTs(block) ==
    block[CHOOSE i \in DOMAIN block :
            /\ \A j \in DOMAIN block : block[i].utc <= block[j].utc
            /\ \A j \in 1..(i - 1) : block[j].utc > block[i].utc]

MaxTs(block) ==
    block[CHOOSE i \in DOMAIN block :
            /\ \A j \in DOMAIN block : block[i].utc >= block[j].utc
            /\ \A j \in 1..(i - 1) : block[j].utc < block[i].utc]

(***************************************************************************)
(* calculate_session_duration, lines 77-105: the walk that cuts the sorted *)
(* interactions into work blocks.  i is the 1-based position (the code's   *)
(* enumerate index plus one).                                              *)
(***************************************************************************)
\* Line 90 with >= for >: what C23 tells apart from the code.
GapReaches(gap, max_gap) == gap >= max_gap

GapExceeds(gap, max_gap) == gap > max_gap

RECURSIVE GroupScan(_, _, _, _, _, _)
GroupScan(sorted, i, current_block, work_blocks, gaps, max_gap) ==
    IF i > Len(sorted)
    THEN [work_blocks |-> IF current_block # <<>>
                          THEN Append(work_blocks, current_block)
                          ELSE work_blocks,
          gaps |-> gaps]
    ELSE IF ~sorted[i].valid
    THEN GroupScan(sorted, i + 1, current_block, work_blocks, gaps, max_gap)
    ELSE LET ts == FromIsoFormat(sorted[i]) IN
         IF i = 1
         THEN GroupScan(sorted, i + 1, <<ts>>, work_blocks, gaps, max_gap)
         ELSE LET prev_ts == IF current_block # <<>>
                             THEN current_block[Len(current_block)]
                             ELSE ts
                  gap == ts.utc - prev_ts.utc
              IN  IF GapExceeds(gap, max_gap)
                  THEN GroupScan(sorted, i + 1, <<ts>>,
                          IF current_block # <<>>
                          THEN Append(work_blocks, current_block)
                          ELSE work_blocks,
                          IF current_block # <<>>
                          THEN Append(gaps, [start |-> prev_ts, end |-> ts,
                                             duration_minutes |-> gap \div 60])
                          ELSE gaps,
                          max_gap)
                  ELSE GroupScan(sorted, i + 1, Append(current_block, ts),
                                 work_blocks, gaps, max_gap)

(***************************************************************************)
(* calculate_session_duration, lines 111-133: one entry of block_details.  *)
(***************************************************************************)
SingleInteractionSeconds == 300

BufferSeconds == 180

BlockDuration(block) ==
    IF Len(block) = 1
    THEN SingleInteractionSeconds
    ELSE (MaxTs(block).utc - MinTs(block).utc) + BufferSeconds

\* Lines 128-133 with the block counted as one interaction: what C30 tells
\* apart from the code.
BlockDetailUncounted(block) ==
    [start |-> MinTs(block),
     end |-> MaxTs(block),
     duration_minutes |-> BlockDuration(block) \div 60,
     interaction_count |-> 1]

BlockDetail(block) ==
    [start |-> MinTs(block),
     end |-> MaxTs(block),
     duration_minutes |-> BlockDuration(block) \div 60,
     interaction_count |-> Len(block)]

Flatten(blocks) ==
    LET RECURSIVE F(_)
        F(bs) == IF bs = <<>> THEN <<>> ELSE Head(bs) \o F(Tail(bs))
    IN  F(blocks)

(***************************************************************************)
(* calculate_session_duration, lines 53-163.  'formatted' is presentation  *)
(* and is left out.                                                        *)
(***************************************************************************)
calculate_session_duration(stamps, gap_minutes) ==
    IF stamps = <<>>
    THEN [duration_minutes |-> 0, first_interaction |-> Nothing,
          last_interaction |-> Nothing, work_blocks |-> <<>>, gaps |-> <<>>,
          should_split |-> FALSE]
    ELSE LET scan == GroupScan(SortedByTimestamp(stamps), 1, <<>>, <<>>, <<>>,
                               60 * gap_minutes)
             block_details == [b \in 1..Len(scan.work_blocks) |->
                                  BlockDetail(scan.work_blocks[b])]
             all_timestamps == Flatten(scan.work_blocks)
         IN  [duration_minutes |->
                 SumSeq([b \in 1..Len(block_details) |->
                            block_details[b].duration_minutes]),
              first_interaction |-> IF all_timestamps # <<>>
                                    THEN MinTs(all_timestamps) ELSE Nothing,
              last_interaction |-> IF all_timestamps # <<>>
                                   THEN MaxTs(all_timestamps) ELSE Nothing,
              work_blocks |-> block_details,
              gaps |-> scan.gaps,
              should_split |-> Len(scan.work_blocks) > 1]

(***************************************************************************)
(* find_claude_sessions_enhanced, lines 239-299: one session dictionary    *)
(* per file that holds interactions of the target date.  The model's file  *)
(* is the list of the timestamps of those interactions and the source that *)
(* wrote it; claude_sessions come first in all_sessions (line 302).        *)
(***************************************************************************)
FileSession(file) ==
    [source |-> file.source,
     interaction_count |-> Len(file.stamps),
     duration |-> calculate_session_duration(file.stamps, 15)]

SelectSource(fs, source) == SelectSeq(fs, LAMBDA f : f.source = source)

SessionsOfFiles(fs) ==
    LET ordered == SelectSource(fs, "claude") \o SelectSource(fs, "cursor")
    IN  [i \in 1..Len(ordered) |-> FileSession(ordered[i])]

\* Line 304: the sessions with a first_interaction.
HasTimestamps(session) == session.duration.first_interaction # Nothing

\* Line 305: a stable sort by the first_interaction string; indices into objs.
RankByFirstInteraction(objs, i) ==
    1 + Cardinality({j \in DOMAIN objs :
          \/ StringLess(IsoFormat(objs[j].duration.first_interaction),
                        IsoFormat(objs[i].duration.first_interaction))
          \/ /\ ~StringLess(IsoFormat(objs[i].duration.first_interaction),
                            IsoFormat(objs[j].duration.first_interaction))
             /\ j < i})

SortedByFirstInteraction(objs) ==
    [k \in 1..Len(objs) |->
        CHOOSE i \in DOMAIN objs : RankByFirstInteraction(objs, i) = k]

(***************************************************************************)
(* Lines 311-313 and 337-338: current_merged = session.copy() is a shallow *)
(* copy.  The copy has its own interaction_count and its own 'sessions'    *)
(* list, and shares the session's 'duration' dictionary: head is the index *)
(* of the session whose duration dictionary the block reads and writes.    *)
(***************************************************************************)
NewMerged(objs, i) ==
    [head |-> i,
     source |-> objs[i].source,
     interaction_count |-> objs[i].interaction_count,
     sessions |-> <<i>>]

\* Lines 316-319: the adjacency test, in seconds.
IsAdjacent(current_end, session_start) ==
    session_start.utc - current_end.utc < 900

\* Lines 322-323: the writes to the shared duration dictionary.
MergeDuration(current, session) ==
    [current EXCEPT !.last_interaction = session.last_interaction,
                    !.duration_minutes = @ + session.duration_minutes]

\* Lines 321 and 324: the writes to the copy.
MergeCopy(current, objs, i) ==
    [current EXCEPT !.interaction_count = @ + objs[i].interaction_count,
                    !.sessions = Append(@, i)]

(***************************************************************************)
(* Lines 307-341: the cross-source merge pass.  order lists the indices of *)
(* the sessions in sorted order, k is the position of the next one, cur is *)
(* current_merged (None before the first session).                         *)
(***************************************************************************)
RECURSIVE CrossScan(_, _, _, _, _)
CrossScan(objs, order, k, cur, out) ==
    IF k > Len(order)
    THEN [objs |-> objs, out |-> IF cur # Nothing THEN Append(out, cur) ELSE out]
    ELSE LET i == order[k] IN
         IF cur = Nothing
         THEN CrossScan(objs, order, k + 1, NewMerged(objs, i), out)
         ELSE IF IsAdjacent(objs[cur.head].duration.last_interaction,
                            objs[i].duration.first_interaction)
         THEN CrossScan(
                 [objs EXCEPT ![cur.head].duration =
                                  MergeDuration(@, objs[i].duration)],
                 order, k + 1, MergeCopy(cur, objs, i), out)
         ELSE CrossScan(objs, order, k + 1, NewMerged(objs, i),
                        Append(out, cur))

(***************************************************************************)
(* find_claude_sessions_enhanced, lines 220-363.  all_sessions holds the   *)
(* session dictionaries after the call; the duration a merged block shows  *)
(* is all_sessions[block.head].duration.                                   *)
(***************************************************************************)
find_claude_sessions_enhanced(fs) ==
    LET built == SessionsOfFiles(fs)
        kept == SelectSeq(built, HasTimestamps)
        scan == CrossScan(kept, SortedByFirstInteraction(kept), 1, Nothing, <<>>)
    IN  [all_sessions |-> scan.objs,
         result |->
           [claude_sessions |-> Len(SelectSource(fs, "claude")),
            cursor_sessions |-> Len(SelectSource(fs, "cursor")),
            total_sessions |-> Len(kept),
            merged_sessions |-> Len(scan.out),
            total_duration_minutes |->
                SumSeq([i \in 1..Len(scan.objs) |->
                           scan.objs[i].duration.duration_minutes]),
            sessions |-> scan.out]]

\* The duration dictionary of a merged block.
BlockDurationInfo(objs, block) == objs[block.head].duration

\* generate_clockify_entries, lines 395-481, for one merged block: the
\* entries it makes of the block, each with the part number of its
\* description (0 for a description without one) and the minutes its duration
\* shows.  The session's own work_blocks (line 399) is the list of its
\* duration (line 290).
generate_clockify_entries(objs, block) ==
    LET duration == BlockDurationInfo(objs, block) IN
    IF duration.should_split
    THEN [idx \in DOMAIN duration.work_blocks |->
             [part |-> IF Len(duration.work_blocks) > 1 THEN idx ELSE 0,
              minutes |-> duration.work_blocks[idx].duration_minutes]]
    ELSE <<[part |-> 0, minutes |-> duration.duration_minutes]>>

(***************************************************************************)
(* cursor_realtime_extractor.py.  The unit of time is one minute.  An      *)
(* activity is a pair (mtime, project).                                    *)
(***************************************************************************)
Activity(timestamp, project) == [timestamp |-> timestamp, project |-> project]

\* Lines 109-115: an activity is kept when it is more than 30 minutes after
\* the last kept one.  last_time is <<>> for None and <<t>> for the time t.
RECURSIVE Dedup(_, _, _)
Dedup(acts, last_time, deduped) ==
    IF acts = <<>>
    THEN deduped
    ELSE IF last_time = <<>> \/ Head(acts).timestamp - last_time[1] > 30
    THEN Dedup(Tail(acts), <<Head(acts).timestamp>>, Append(deduped, Head(acts)))
    ELSE Dedup(Tail(acts), last_time, deduped)

\* _extract_all_activities, lines 104-118: sort by timestamp, then dedup.
extract_all_activities(found_activities) ==
    LET order == StableOrder([i \in DOMAIN found_activities |->
                                 found_activities[i].timestamp])
    IN  Dedup([k \in DOMAIN order |-> found_activities[order[k]]],
              <<>>, <<>>)

\* _group_into_sessions, lines 199-211: one session of one hour per activity,
\* ending at the activity.
\* Line 202 with sessions of two hours: what C29 tells apart from the code.
ActivitySessionTwoHours(activity) ==
    [start |-> activity.timestamp - 120, end |-> activity.timestamp,
     service |-> "Cursor", project |-> activity.project, activity_count |-> 1]

ActivitySession(activity) ==
    [start |-> activity.timestamp - 60, end |-> activity.timestamp,
     service |-> "Cursor", project |-> activity.project, activity_count |-> 1]

\* Lines 225-226: the test that merges a session into the last merged one.
OverlapsLast(last_session, current_session) ==
    /\ current_session.start <= last_session.end
    /\ current_session.project = last_session.project

\* Lines 219-240.
RECURSIVE GroupScanSessions(_, _)
GroupScanSessions(rest, merged_sessions) ==
    IF rest = <<>>
    THEN merged_sessions
    ELSE LET current_session == Head(rest)
             last_session == merged_sessions[Len(merged_sessions)]
         IN  IF OverlapsLast(last_session, current_session)
             THEN GroupScanSessions(Tail(rest),
                    [merged_sessions EXCEPT ![Len(merged_sessions)] =
                        [start |-> last_session.start,
                         end |-> Max(last_session.end, current_session.end),
                         service |-> "Cursor",
                         project |-> last_session.project,
                         activity_count |-> last_session.activity_count + 1]])
             ELSE GroupScanSessions(Tail(rest),
                                    Append(merged_sessions, current_session))

\* _group_into_sessions, lines 190-246.
group_into_sessions(acts) ==
    LET made == [i \in DOMAIN acts |-> ActivitySession(acts[i])]
        order == StableOrder([i \in DOMAIN made |-> made[i].start])
        sorted == [k \in DOMAIN order |-> made[order[k]]]
    IN  IF Len(sorted) > 1
        THEN GroupScanSessions(Tail(sorted), <<Head(sorted)>>)
        ELSE sorted

\* CursorRealtimeExtractor.extract_sessions, lines 29-46, the database being
\* available and no date range given.
cursor_extract_sessions(found_activities) ==
    group_into_sessions(extract_all_activities(found_activities))

(***************************************************************************)
(* claude_extractor.py.  The unit of time is one minute.  An entry is what *)
(* _parse_jsonl_file keeps of a record: its timestamp and its project.     *)
(***************************************************************************)
Entry(timestamp, project) == [timestamp |-> timestamp, project |-> project]

(***************************************************************************)
(* _parse_jsonl_file, lines 86-128.  A line of the file is blank, or is    *)
(* not JSON, or is a JSON object without a timestamp, or one whose         *)
(* timestamp fromisoformat does not accept, or a well-formed record.       *)
(***************************************************************************)
OtherLine(kind) == [kind |-> kind, timestamp |-> 0]

RecordLine(timestamp) == [kind |-> "record", timestamp |-> timestamp]

JsonlLines ==
    {OtherLine(kind) :
        kind \in {"blank", "invalid_json", "no_timestamp", "bad_timestamp"}}
        \cup {RecordLine(t) : t \in {0, 3}}

\* Lines 123-124 and 125-126: json.JSONDecodeError is caught inside the loop,
\* line by line; every other exception is caught outside the loop.
CaughtInLoop(line) == line.kind = "invalid_json"

CaughtOutsideLoop(line) == line.kind = "bad_timestamp"

\* The loop of lines 91-124 from line k of the file on; project_name is the
\* name of the directory of the file.
RECURSIVE ParseLines(_, _, _, _)
ParseLines(lines, k, project_name, parsed) ==
    IF k > Len(lines) THEN parsed
    ELSE IF lines[k].kind = "blank"
    THEN ParseLines(lines, k + 1, project_name, parsed)
    ELSE IF CaughtInLoop(lines[k])
    THEN ParseLines(lines, k + 1, project_name, parsed)
    ELSE IF CaughtOutsideLoop(lines[k])
    THEN parsed
    ELSE IF lines[k].kind = "no_timestamp"
    THEN ParseLines(lines, k + 1, project_name, parsed)
    ELSE ParseLines(lines, k + 1, project_name,
                    Append(parsed, Entry(lines[k].timestamp, project_name)))

parse_jsonl_file(lines, project_name) == ParseLines(lines, 1, project_name, <<>>)

\* Line 136: dt.floor(f'{block_size}min').
FloorTo(timestamp, block_size) == timestamp - (timestamp % block_size)

\* The order of strings groupby sorts the project key by.
ProjectOrder == <<"Unknown", "alpha", "beta">>

BlockKeyLess(a, b) ==
    \/ a.block_start < b.block_start
    \/ /\ a.block_start = b.block_start
       /\ PosIn(ProjectOrder, a.project) < PosIn(ProjectOrder, b.project)

\* _create_activity_blocks, lines 130-151: one row per (block_start, project),
\* in the sorted order of the keys, with the number of entries of the group.
create_activity_blocks(df, block_size) ==
    LET keys == {[block_start |-> FloorTo(df[i].timestamp, block_size),
                  project |-> df[i].project] : i \in DOMAIN df}
        rank(key) == 1 + Cardinality({other \in keys : BlockKeyLess(other, key)})
    IN  [k \in 1..Cardinality(keys) |->
            LET key == CHOOSE x \in keys : rank(x) = k IN
            [block_start |-> key.block_start,
             project |-> key.project,
             interactions |->
                Cardinality({i \in DOMAIN df :
                    /\ FloorTo(df[i].timestamp, block_size) = key.block_start
                    /\ df[i].project = key.project})]]

\* extract_sessions, lines 66-80: one session per block.
BlockSession(block, block_size) ==
    Session(block.block_start, block.block_start + block_size, "Claude",
            block.project, block.interactions)

\* ClaudeExtractor.extract_sessions, lines 28-84, the data directory being
\* there and no date range given.
claude_extract_sessions(all_entries, config) ==
    IF all_entries = <<>>
    THEN <<>>
    ELSE LET blocks == create_activity_blocks(all_entries,
                                              config.block_size_minutes)
             made == [i \in DOMAIN blocks |->
                         BlockSession(blocks[i], config.block_size_minutes)]
             r == merge_consecutive_sessions(made,
                                             config.merge_threshold_minutes)
         IN  Deref(r.objs, r.out)

(***************************************************************************)
(* git_analyzer.py.  The unit of time is one minute.  A commit is the      *)
(* dictionary the fetchers build; the model keeps its repo and timestamp.  *)
(* A DataFrame is its rows and whether it has the columns of a commit:     *)
(* pd.DataFrame([]) has no column at all.                                  *)
(***************************************************************************)
Commit(repo, timestamp) == [repo |-> repo, timestamp |-> timestamp]

DataFrame(rows) == [has_columns |-> rows # <<>>, rows |-> rows]

\* What an exception leaves in place of a result.
Raised(exception) == [raised |-> exception]

\* get_all_commits, lines 17-38: the cache is returned when it is set, and
\* set to the frame of everything the repositories yield otherwise.
get_all_commits(cache, all_commits) ==
    IF cache # Nothing THEN cache ELSE DataFrame(all_commits)

\* Lines 69-72 and 103-106: what gh api and git log yield for a date range,
\* since and until being its two ends; no filter for None.
CommitsInRange(all_commits, range) ==
    IF range = Nothing
    THEN all_commits
    ELSE SelectSeq(all_commits,
                   LAMBDA c : range.since <= c.timestamp /\ c.timestamp <= range.until)

\* The mask with both bounds exclusive: what C8 tells apart from the code.
InWindowExclusive(timestamp, session_time, cfg) ==
    /\ timestamp > session_time - 60 * cfg.commit_window_hours_before
    /\ timestamp < session_time + 60 * cfg.commit_window_hours_after

\* find_repository_for_session, lines 43-51: the mask of the window.
InWindow(timestamp, session_time, cfg) ==
    /\ timestamp >= session_time - 60 * cfg.commit_window_hours_before
    /\ timestamp <= session_time + 60 * cfg.commit_window_hours_after

RelevantCommits(session_time, rows, cfg) ==
    SelectSeq(rows, LAMBDA c : InWindow(c.timestamp, session_time, cfg))

CountOf(repo, commits) == Cardinality({k \in DOMAIN commits : commits[k].repo = repo})

\* Line 56-57: relevant_commits['repo'].value_counts().index[0].  value_counts
\* orders the repositories by descending count; the order it gives to
\* repositories of equal count is not fixed by the code, so each repository
\* of the highest count is a possible index[0].
MostFrequent(commits) ==
    {commits[k].repo : k \in {n \in DOMAIN commits :
        \A m \in DOMAIN commits :
            CountOf(commits[n].repo, commits) >= CountOf(commits[m].repo, commits)}}

\* Line 57: the second component of the pair returned.
ReturnedCount(repo, relevant_commits) == Len(relevant_commits)

\* find_repository_for_session, lines 40-59: the results it can return.
find_repository_for_session(session_time, commits_df, cfg) ==
    IF ~commits_df.has_columns
    THEN {Raised("KeyError")}
    ELSE LET relevant_commits == RelevantCommits(session_time, commits_df.rows, cfg)
         IN  IF Len(relevant_commits) > 0
             THEN {[repo |-> r, count |-> ReturnedCount(r, relevant_commits)] :
                      r \in MostFrequent(relevant_commits)}
             ELSE {[repo |-> None, count |-> 0]}

(***************************************************************************)
(* time_tracker.py.                                                        *)
(***************************************************************************)
\* Python's `a or b` on values that are None or non-empty strings.
Or(a, b) == IF a # None THEN a ELSE b

\* analyze_sessions, lines 80-83: one row; to_dict's duration_hours is kept
\* in minutes.
AnalyzedRow(session, found_repo) ==
    [start |-> session.start, end |-> session.end, service |-> session.service,
     project |-> session.project, duration |-> session.end - session.start,
     identified_repo |-> Or(found_repo.repo, session.project),
     commits_in_window |-> found_repo.count]

\* analyze_sessions, lines 65-85: the frames it can return, or the exception
\* the first call of find_repository_for_session raises.
analyze_sessions(session_list, commits_df, cfg) ==
    IF \E i \in DOMAIN session_list :
          Raised("KeyError") \in
              find_repository_for_session(session_list[i].start, commits_df, cfg)
    THEN {Raised("KeyError")}
    ELSE {[frame |-> [i \in DOMAIN session_list |->
                          AnalyzedRow(session_list[i], picks[i])]] :
            picks \in {f \in [DOMAIN session_list ->
                                UNION {find_repository_for_session(
                                          session_list[i].start, commits_df, cfg) :
                                       i \in DOMAIN session_list}] :
                        \A i \in DOMAIN session_list :
                            f[i] \in find_repository_for_session(
                                        session_list[i].start, commits_df, cfg)}}

\* The bucket without the branch on the service: what C10 tells apart from
\* the code.
RepoBucketSameForAll(row) ==
    Or(Or(row.identified_repo, row.project), "Unknown")

\* _print_repository_summary, lines 126-130.
RepoBucket(row) ==
    IF row.service = "Claude"
    THEN Or(row.project, "Unknown")
    ELSE Or(Or(row.identified_repo, row.project), "Unknown")

\* _print_daily_breakdown, lines 186-190.
DailyBucket(row) ==
    IF row.service = "Claude"
    THEN Or(row.project, "Unknown")
    ELSE Or(Or(row.identified_repo, row.project), "Unknown")

\* Line 171: the date of a start.
DateOf(minute) == minute \div 1440

MaxOf(S) == CHOOSE x \in S : \A y \in S : x >= y

\* _print_repository_summary, lines 118-137: repo_stats.
repository_summary(df) ==
    [repo \in {RepoBucket(df[i]) : i \in DOMAIN df} |->
        LET rows == {i \in DOMAIN df : RepoBucket(df[i]) = repo} IN
        [total |-> SumSeq([i \in DOMAIN df |->
                     IF i \in rows THEN df[i].duration ELSE 0]),
         sessions |-> Cardinality(rows),
         services |-> {df[i].service : i \in rows},
         commits |-> MaxOf({0} \cup {df[i].commits_in_window : i \in rows})]]

\* _print_service_summary, lines 156-159: 'count' counts the rows whose
\* identified_repo is not null.
service_summary(df) ==
    [service \in {df[i].service : i \in DOMAIN df} |->
        [total |-> SumSeq([i \in DOMAIN df |->
                     IF df[i].service = service THEN df[i].duration ELSE 0]),
         sessions |-> Cardinality({i \in DOMAIN df :
                        /\ df[i].service = service
                        /\ df[i].identified_repo # None})]]

\* _print_daily_breakdown, lines 171-193: the seven most recent dates, and for
\* each the rows of that date in the order of the frame.
daily_breakdown(df) ==
    LET dates == {DateOf(df[i].start) : i \in DOMAIN df}
        recent_dates == {d \in dates : Cardinality({e \in dates : e > d}) < 7}
    IN  [date \in recent_dates |->
            LET of_day == SelectSeq([i \in DOMAIN df |-> i],
                                    LAMBDA i : DateOf(df[i].start) = date)
            IN  [k \in DOMAIN of_day |->
                    [row |-> of_day[k],
                     start |-> df[of_day[k]].start,
                     end |-> df[of_day[k]].end,
                     service |-> df[of_day[k]].service,
                     repo |-> DailyBucket(df[of_day[k]])]]]

\* generate_report, lines 87-112, without the files _save_outputs writes.  A
\* frame without rows is pd.DataFrame([]), which has no column: the loop of
\* _print_repository_summary does nothing, and df.groupby('service') (line
\* 156) raises KeyError.
generate_report(df) ==
    IF df = <<>>
    THEN Raised("KeyError")
    ELSE [by_repository |-> repository_summary(df),
          by_service |-> service_summary(df),
          by_day |-> daily_breakdown(df)]

(***************************************************************************)
(* The program that calls merge_consecutive_sessions once.                 *)
(***************************************************************************)
IdleDuration ==
    /\ interactions = <<>>
    /\ max_gap_minutes = 0
    /\ duration_info = Nothing

IdleEnhanced ==
    /\ files = <<>>
    /\ all_sessions = <<>>
    /\ found = Nothing

IdleGit ==
    /\ asked = <<>>
    /\ answered = <<>>

IdleRun ==
    /\ sources = Nothing
    /\ workers = Nothing
    /\ yielded = <<>>
    /\ gathered = <<>>
    /\ writers = {}

IdleTrack ==
    /\ fetched = <<>>
    /\ commits_cache = Nothing
    /\ window = Nothing
    /\ tracked = <<>>
    /\ sessions_df = Nothing
    /\ report = Nothing
    /\ IdleRun

IdleExtract ==
    /\ activities = <<>>
    /\ jsonl = <<>>
    /\ entries = <<>>
    /\ analysis = Nothing
    /\ extracted = <<>>

IdleBase ==
    /\ sessions = <<>>
    /\ given = <<>>
    /\ threshold = 0
    /\ merged = <<>>
    /\ first_call = Nothing
    /\ second = <<>>

InitBase ==
    /\ pc = "base_given"
    /\ IdleDuration
    /\ IdleGit
    /\ IdleEnhanced
    /\ IdleExtract
    /\ IdleTrack
    /\ sessions \in SeqsUpTo(WellFormedSessions, MaxSessions)
    /\ given = sessions
    /\ threshold \in Thresholds
    /\ merged = <<>>
    /\ first_call = Nothing
    /\ second = <<>>

MergeConsecutiveSessions ==
    /\ pc = "base_given"
    /\ LET r == merge_consecutive_sessions(sessions, threshold) IN
         /\ sessions' = r.objs
         /\ merged' = r.out
    /\ pc' = "base_merged"
    /\ UNCHANGED <<given, threshold, first_call, second, durationVars,
                   enhancedVars, extractVars, trackVars,
                   gitVars>>

NextBase == MergeConsecutiveSessions

SpecBase == InitBase /\ [][NextBase]_vars

(***************************************************************************)
(* The program that calls merge_consecutive_sessions a second time with    *)
(* the same threshold: on the list the first call returned, or on the list *)
(* the first call was given.  The objects are the ones the first call left.*)
(***************************************************************************)
MergeReturnedAgain ==
    /\ pc = "base_merged"
    /\ first_call' = [objs |-> sessions, out |-> merged]
    /\ LET r == merge_referenced(sessions, merged, threshold) IN
         /\ sessions' = r.objs
         /\ second' = r.out
    /\ pc' = "base_remerged"
    /\ UNCHANGED <<given, threshold, merged, durationVars, enhancedVars,
                   extractVars, trackVars,
                   gitVars>>

MergeGivenAgain ==
    /\ pc = "base_merged"
    /\ first_call' = [objs |-> sessions, out |-> merged]
    /\ LET r == merge_consecutive_sessions(sessions, threshold) IN
         /\ sessions' = r.objs
         /\ second' = r.out
    /\ pc' = "base_repeated"
    /\ UNCHANGED <<given, threshold, merged, durationVars, enhancedVars,
                   extractVars, trackVars,
                   gitVars>>

NextRepeat == MergeConsecutiveSessions \/ MergeReturnedAgain \/ MergeGivenAgain

SpecRepeat == InitBase /\ [][NextRepeat]_vars

(***************************************************************************)
(* The program that calls calculate_session_duration once.                 *)
(***************************************************************************)
DurationStamps ==
    {Stamp(t, o, TRUE) : t \in WallClocks, o \in Offsets}
        \cup {Stamp(450, 0, FALSE)}

InitDuration ==
    /\ pc = "duration_given"
    /\ interactions \in SeqsUpTo(DurationStamps, MaxInteractions)
    /\ max_gap_minutes \in MaxGapChoices
    /\ duration_info = Nothing
    /\ IdleGit
    /\ IdleBase
    /\ IdleEnhanced
    /\ IdleExtract
    /\ IdleTrack

CalculateSessionDuration ==
    /\ pc = "duration_given"
    /\ duration_info' = calculate_session_duration(interactions, max_gap_minutes)
    /\ pc' = "duration_done"
    /\ UNCHANGED <<interactions, max_gap_minutes, baseVars, enhancedVars,
                   extractVars, trackVars,
                   gitVars>>

NextDuration == CalculateSessionDuration

SpecDuration == InitDuration /\ [][NextDuration]_vars

(***************************************************************************)
(* The program that calls find_claude_sessions_enhanced once.              *)
(***************************************************************************)
FileValues ==
    {[source |-> src, stamps |-> [i \in 1..Len(l) |-> Stamp(l[i], 0, TRUE)]] :
        src \in {"claude", "cursor"}, l \in FileStampLists}
      \cup {[source |-> "claude", stamps |-> <<Stamp(450, 0, FALSE)>>]}

InitEnhanced ==
    /\ pc = "enhanced_given"
    /\ files \in SeqsUpTo(FileValues, MaxFiles)
    /\ all_sessions = <<>>
    /\ found = Nothing
    /\ IdleBase
    /\ IdleDuration
    /\ IdleGit
    /\ IdleExtract
    /\ IdleTrack

FindClaudeSessionsEnhanced ==
    /\ pc = "enhanced_given"
    /\ LET r == find_claude_sessions_enhanced(files) IN
         /\ all_sessions' = r.all_sessions
         /\ found' = r.result
    /\ pc' = "enhanced_done"
    /\ UNCHANGED <<files, baseVars, durationVars, extractVars, trackVars,
                   gitVars>>

NextEnhanced == FindClaudeSessionsEnhanced

SpecEnhanced == InitEnhanced /\ [][NextEnhanced]_vars

(***************************************************************************)
(* The programs that call one extractor's extract_sessions once.           *)
(***************************************************************************)
InitCursor ==
    /\ pc = "cursor_given"
    /\ activities \in SeqsUpTo({Activity(t, p) : t \in ActivityTimes,
                                    p \in {"Unknown", "alpha"}}, MaxActivities)
    /\ jsonl = <<>>
    /\ entries = <<>>
    /\ analysis = Nothing
    /\ extracted = <<>>
    /\ IdleBase
    /\ IdleDuration
    /\ IdleGit
    /\ IdleEnhanced
    /\ IdleTrack

CursorExtractSessions ==
    /\ pc = "cursor_given"
    /\ extracted' = cursor_extract_sessions(activities)
    /\ pc' = "cursor_done"
    /\ UNCHANGED <<activities, jsonl, entries, analysis, baseVars,
                   durationVars, enhancedVars, trackVars,
                   gitVars>>

InitClaude ==
    /\ pc = "claude_given"
    /\ entries \in SeqsUpTo({Entry(t, p) : t \in EntryTimes, p \in Projects},
                             MaxEntries)
    /\ analysis \in AnalysisChoices
    /\ activities = <<>>
    /\ jsonl = <<>>
    /\ extracted = <<>>
    /\ IdleBase
    /\ IdleDuration
    /\ IdleGit
    /\ IdleEnhanced
    /\ IdleTrack

ClaudeExtractSessions ==
    /\ pc = "claude_given"
    /\ extracted' = claude_extract_sessions(entries, analysis)
    /\ pc' = "claude_done"
    /\ UNCHANGED <<activities, jsonl, entries, analysis, baseVars,
                   durationVars, enhancedVars, trackVars,
                   gitVars>>

(***************************************************************************)
(* The program that parses one JSONL file of the project alpha.            *)
(***************************************************************************)
InitParse ==
    /\ pc = "parse_given"
    /\ jsonl \in SeqsUpTo(JsonlLines, MaxLines)
    /\ activities = <<>>
    /\ entries = <<>>
    /\ analysis = Nothing
    /\ extracted = <<>>
    /\ IdleBase
    /\ IdleDuration
    /\ IdleGit
    /\ IdleEnhanced
    /\ IdleTrack

ParseJsonlFile ==
    /\ pc = "parse_given"
    /\ entries' = parse_jsonl_file(jsonl, "alpha")
    /\ pc' = "parse_done"
    /\ UNCHANGED <<activities, jsonl, analysis, extracted, baseVars,
                   durationVars, enhancedVars, trackVars,
                   gitVars>>

SpecParse == InitParse /\ [][ParseJsonlFile]_vars

NextExtract == CursorExtractSessions \/ ClaudeExtractSessions

SpecExtract == (InitCursor \/ InitClaude) /\ [][NextExtract]_vars

(***************************************************************************)
(* A GitAnalyzer whose get_all_commits is called several times, each time  *)
(* with a date range; fetched is what the repositories hold.               *)
(***************************************************************************)
InitCommits ==
    /\ pc = "git_ready"
    /\ fetched \in SeqsUpTo({Commit(r, t) : r \in Repositories, t \in CommitTimes},
                             MaxCommits)
    /\ commits_cache = Nothing
    /\ asked = <<>>
    /\ answered = <<>>
    /\ window = Nothing
    /\ tracked = <<>>
    /\ sessions_df = Nothing
    /\ report = Nothing
    /\ IdleRun
    /\ IdleBase
    /\ IdleDuration
    /\ IdleEnhanced
    /\ IdleExtract

GetAllCommits ==
    /\ pc = "git_ready"
    /\ Len(asked) < MaxCalls
    /\ \E range \in DateRanges :
          /\ asked' = Append(asked, range)
          /\ commits_cache' =
                get_all_commits(commits_cache, CommitsInRange(fetched, range))
          /\ answered' = Append(answered, commits_cache')
    /\ UNCHANGED <<pc, fetched, window, tracked, sessions_df, report, runVars,
                   baseVars, durationVars, enhancedVars, extractVars>>

SpecCommits == InitCommits /\ [][GetAllCommits]_vars

(***************************************************************************)
(* time_tracker.main, lines 236-245, from the return of                    *)
(* extract_all_sessions, which sorts the sessions by start (line 63).      *)
(***************************************************************************)
TrackedValues ==
    {Session(s, s + 30, service, p, 1) :
        s \in TrackedStarts, service \in {"Claude", "Cursor"},
        p \in {None, "alpha"}}

InitTrack ==
    /\ pc = "track_extracted"
    /\ tracked \in {t \in SeqsUpTo(TrackedValues, MaxTracked) :
                       \A i, j \in DOMAIN t : i < j => t[i].start <= t[j].start}
    /\ fetched \in SeqsUpTo({Commit(r, t) : r \in Repositories, t \in CommitTimes},
                             MaxCommits)
    /\ window \in WindowChoices
    /\ commits_cache = Nothing
    /\ sessions_df = Nothing
    /\ report = Nothing
    /\ IdleRun
    /\ IdleBase
    /\ IdleDuration
    /\ IdleGit
    /\ IdleEnhanced
    /\ IdleExtract

\* Lines 240-242: no session, no analysis.
NoSessionsFound ==
    /\ pc = "track_extracted"
    /\ tracked = <<>>
    /\ pc' = "track_exit"
    /\ UNCHANGED <<baseVars, durationVars, enhancedVars, extractVars, trackVars,
                   gitVars>>

\* Line 244: analyze_sessions, get_all_commits included.
AnalyzeSessions ==
    /\ pc = "track_extracted"
    /\ tracked # <<>>
    /\ commits_cache' = get_all_commits(commits_cache, fetched)
    /\ \E outcome \in analyze_sessions(tracked, commits_cache', window) :
          IF outcome = Raised("KeyError")
          THEN /\ pc' = "track_raised"
               /\ sessions_df' = sessions_df
          ELSE /\ pc' = "track_analyzed"
               /\ sessions_df' = outcome.frame
    /\ UNCHANGED <<fetched, window, tracked, report, runVars, baseVars,
                   durationVars, enhancedVars, extractVars,
                   gitVars>>

\* Line 245: generate_report.
GenerateReport ==
    /\ pc = "track_analyzed"
    /\ report' = generate_report(sessions_df)
    /\ pc' = IF report' = Raised("KeyError") THEN "track_raised"
                                              ELSE "track_reported"
    /\ UNCHANGED <<fetched, commits_cache, window, tracked, sessions_df,
                   runVars, baseVars, durationVars, enhancedVars, extractVars,
                   gitVars>>

NextTrack == NoSessionsFound \/ AnalyzeSessions \/ GenerateReport

SpecTrack == InitTrack /\ [][NextTrack]_vars

(***************************************************************************)
(* The sources of the two runners.  Asked for its sessions, a source is    *)
(* not available, or its extract_sessions raises, or it returns a list.    *)
(* Extractors is the order of _initialize_extractors (time_tracker.py,     *)
(* lines 40-47) and of the submissions (parallel_extract.py, lines 86-88). *)
(***************************************************************************)
Extractors == <<"Claude", "Cursor", "Git">>

Unavailable == [kind |-> "unavailable", sessions |-> <<>>]

Raises == [kind |-> "raises", sessions |-> <<>>]

Returns(list) == [kind |-> "returns", sessions |-> list]

\* subprocess.run (git_extractor.py, lines 89 and 122) is called without a
\* timeout: it returns when the command does, and the command may never return.
NeverReturns == [kind |-> "never_returns", sessions |-> <<>>]

SourceOutcomes(service) ==
    {Unavailable, Raises}
        \cup {Returns(l) :
                l \in {t \in SeqsUpTo({Session(st, st + 30, service, "alpha", 1) :
                                          st \in TrackedStarts}, MaxReturned) :
                         \A i, j \in DOMAIN t : i < j => t[i].start <= t[j].start}}

\* The commits the repositories yield in a run of a runner.
RunnerCommits == {<<>>, <<Commit("repoX", 0)>>}

\* sorted(all_sessions, key=lambda s: s.start), line 63.
SortedSessions(list) ==
    LET order == StableOrder([i \in DOMAIN list |-> list[i].start])
    IN  [k \in DOMAIN order |-> list[order[k]]]

\* extract_all_sessions, lines 49-63: the extractors in order; one that is not
\* available is skipped, and nothing catches what extract_sessions raises.
RECURSIVE ExtractLoop(_, _, _)
ExtractLoop(outcome, k, all) ==
    IF k > Len(Extractors)
    THEN [raised |-> FALSE, sessions |-> SortedSessions(all)]
    ELSE LET o == outcome[Extractors[k]] IN
         IF o.kind = "unavailable" THEN ExtractLoop(outcome, k + 1, all)
         ELSE IF o.kind = "raises" THEN [raised |-> TRUE, sessions |-> <<>>]
         ELSE ExtractLoop(outcome, k + 1, all \o o.sessions)

extract_all_sessions(outcome) == ExtractLoop(outcome, 1, <<>>)

(***************************************************************************)
(* time_tracker.main, lines 236-245, from the call of extract_all_sessions.*)
(***************************************************************************)
InitSequential ==
    /\ pc = "seq_start"
    /\ sources \in [{Extractors[k] : k \in DOMAIN Extractors} ->
                       UNION {SourceOutcomes(Extractors[k]) :
                                k \in DOMAIN Extractors}]
    /\ \A k \in DOMAIN Extractors :
          sources[Extractors[k]] \in SourceOutcomes(Extractors[k])
    /\ fetched \in RunnerCommits
    /\ window \in WindowChoices
    /\ tracked = <<>>
    /\ commits_cache = Nothing
    /\ sessions_df = Nothing
    /\ report = Nothing
    /\ workers = Nothing
    /\ yielded = <<>>
    /\ gathered = <<>>
    /\ writers = {}
    /\ IdleBase
    /\ IdleDuration
    /\ IdleGit
    /\ IdleEnhanced
    /\ IdleExtract

\* Line 238.
ExtractAllSessions ==
    /\ pc = "seq_start"
    /\ LET r == extract_all_sessions(sources) IN
         /\ tracked' = r.sessions
         /\ pc' = IF r.raised THEN "seq_raised" ELSE "track_extracted"
    /\ UNCHANGED <<fetched, commits_cache, window, sessions_df, report, runVars,
                   baseVars, durationVars, enhancedVars, extractVars,
                   gitVars>>

NextSequential == ExtractAllSessions \/ NextTrack

SpecSequential == InitSequential /\ [][NextSequential]_vars

(***************************************************************************)
(* parallel_extract.main, lines 80-105.  The three extraction tasks are    *)
(* submitted to a pool of three threads (lines 83-89); main takes the      *)
(* futures as as_completed yields them (lines 92-98), leaves the with      *)
(* block, which waits for the pool, and runs lines 100-105.                *)
(***************************************************************************)
\* extract_claude, extract_cursor, extract_git (lines 23-59): what the task
\* of a source ends with.  A source that is not available returns [].
TaskEnd(outcome) == IF outcome.kind = "raises" THEN "raised" ELSE "returned"

Finished(state) == state \in {"returned", "raised"}

\* Lines 92 and 98: the loop is over when as_completed has yielded every future;
\* it yields a future only when its task is finished.
SomeYielded == Len(yielded) >= 1

AllYielded == Len(yielded) = Len(Extractors)

\* TimeTracker.__init__ (time_tracker.py, lines 30-36) opens its argument as a
\* file: open() raises TypeError for an argument that is not a path.
ConfigPath == [kind |-> "path"]

LoadedConfig == [kind |-> "dict"]

TimeTracker(config_path) ==
    IF config_path.kind = "path" THEN [config |-> LoadedConfig]
                                 ELSE Raised("TypeError")

InitParallel ==
    /\ pc = "par_collecting"
    /\ sources \in [{Extractors[k] : k \in DOMAIN Extractors} ->
                       UNION {SourceOutcomes(Extractors[k]) :
                                k \in DOMAIN Extractors}]
    /\ \A k \in DOMAIN Extractors :
          sources[Extractors[k]] \in SourceOutcomes(Extractors[k])
    /\ workers = [src \in {Extractors[k] : k \in DOMAIN Extractors} |-> "pending"]
    /\ yielded = <<>>
    /\ gathered = <<>>
    /\ writers = {}
    /\ fetched \in RunnerCommits
    /\ window \in WindowChoices
    /\ tracked = <<>>
    /\ commits_cache = Nothing
    /\ sessions_df = Nothing
    /\ report = Nothing
    /\ IdleBase
    /\ IdleDuration
    /\ IdleGit
    /\ IdleEnhanced
    /\ IdleExtract

\* A pool thread takes a submitted task.
WorkerStart(src) ==
    /\ pc = "par_collecting"
    /\ workers[src] = "pending"
    /\ workers' = [workers EXCEPT ![src] = "running"]
    /\ UNCHANGED <<pc, sources, yielded, gathered, writers, fetched,
                   commits_cache, window, tracked, sessions_df, report,
                   baseVars, durationVars, enhancedVars, extractVars,
                   gitVars>>

\* The task returns its sessions to its future, or raises into it.
WorkerFinish(src) ==
    /\ pc = "par_collecting"
    /\ workers[src] = "running"
    /\ sources[src] # NeverReturns
    /\ workers' = [workers EXCEPT ![src] = TaskEnd(sources[src])]
    /\ UNCHANGED <<pc, sources, yielded, gathered, writers, fetched,
                   commits_cache, window, tracked, sessions_df, report,
                   baseVars, durationVars, enhancedVars, extractVars,
                   gitVars>>

\* Lines 92-98: main takes one finished future that as_completed has not
\* yielded yet, and extends all_sessions with its result, if it has one.
CollectResult(src) ==
    /\ pc = "par_collecting"
    /\ Finished(workers[src])
    /\ \A k \in DOMAIN yielded : yielded[k] # src
    /\ yielded' = Append(yielded, src)
    /\ IF workers[src] = "returned"
       THEN /\ gathered' = gathered \o sources[src].sessions
            /\ writers' = writers \cup {"main"}
       ELSE UNCHANGED <<gathered, writers>>
    /\ UNCHANGED <<pc, sources, workers, fetched, commits_cache, window,
                   tracked, sessions_df, report, baseVars, durationVars,
                   enhancedVars, extractVars,
                   gitVars>>

\* The end of the with block of line 83, and line 100.
LeaveExecutor ==
    /\ pc = "par_collecting"
    /\ AllYielded
    /\ pc' = "par_joined"
    /\ UNCHANGED <<baseVars, durationVars, enhancedVars, extractVars, trackVars,
                   gitVars>>

\* Lines 103-104: TimeTracker(config), with the loaded configuration for the
\* path, and analyze_sessions(all_sessions).
RunAnalysis ==
    /\ pc = "par_joined"
    /\ IF TimeTracker(LoadedConfig) = Raised("TypeError")
       THEN /\ pc' = "par_raised"
            /\ UNCHANGED <<tracked, commits_cache, sessions_df>>
       ELSE /\ tracked' = gathered
            /\ commits_cache' = get_all_commits(commits_cache, fetched)
            /\ \E outcome \in analyze_sessions(gathered, commits_cache', window) :
                  IF outcome = Raised("KeyError")
                  THEN /\ pc' = "track_raised"
                       /\ sessions_df' = sessions_df
                  ELSE /\ pc' = "track_analyzed"
                       /\ sessions_df' = outcome.frame
    /\ UNCHANGED <<fetched, window, report, runVars, baseVars, durationVars,
                   enhancedVars, extractVars,
                   gitVars>>

NextParallel ==
    \/ \E src \in {Extractors[k] : k \in DOMAIN Extractors} :
          \/ WorkerStart(src)
          \/ WorkerFinish(src)
          \/ CollectResult(src)
    \/ LeaveExecutor
    \/ RunAnalysis

(***************************************************************************)
(* parallel_extract.main with a Git source whose gh api or git log may     *)
(* never return.                                                           *)
(***************************************************************************)
InitHanging ==
    /\ pc = "par_collecting"
    /\ sources \in [{Extractors[k] : k \in DOMAIN Extractors} ->
                       {NeverReturns} \cup UNION {SourceOutcomes(Extractors[k]) :
                                                    k \in DOMAIN Extractors}]
    /\ \A k \in DOMAIN Extractors :
          \/ sources[Extractors[k]] \in SourceOutcomes(Extractors[k])
          \/ Extractors[k] = "Git" /\ sources[Extractors[k]] = NeverReturns
    /\ workers = [src \in {Extractors[k] : k \in DOMAIN Extractors} |-> "pending"]
    /\ yielded = <<>>
    /\ gathered = <<>>
    /\ writers = {}
    /\ fetched \in RunnerCommits
    /\ window \in WindowChoices
    /\ tracked = <<>>
    /\ commits_cache = Nothing
    /\ sessions_df = Nothing
    /\ report = Nothing
    /\ IdleBase
    /\ IdleDuration
    /\ IdleGit
    /\ IdleEnhanced
    /\ IdleExtract

SpecHanging == InitHanging /\ [][NextParallel]_vars

\* Line 105, generate_report, follows an analysis that returned: it is the
\* GenerateReport of the sequential runner, and part of SpecRunners.
SpecParallel == InitParallel /\ [][NextParallel]_vars

\* Both runners.
SpecRunners ==
    (InitSequential \/ InitParallel) /\ [][NextSequential \/ NextParallel]_vars

\* Both merge passes: merge_consecutive_sessions and the cross-source pass.
SpecPasses == (InitBase \/ InitEnhanced) /\ [][NextBase \/ NextEnhanced]_vars

(***************************************************************************)
(* What the claims speak about.                                            *)
(***************************************************************************)
\* merge_consecutive_sessions: the handed-over sessions in sorted order, and
\* the ones block b of the returned list absorbed (its own head included): the
\* run of the sorted order from the block's head up to the next block's head.
BaseOrder == SortedByStart(given)

BaseMembers(b) ==
    LET order == BaseOrder IN
    SubSeq(order, PosIn(order, merged[b]),
           IF b < Len(merged)
           THEN PosIn(order, merged[b + 1]) - 1
           ELSE Len(order))

BaseBlock(b) == sessions[merged[b]]

\* The cross-source pass: the sessions it was given, as they were before it.
CrossGiven == SelectSeq(SessionsOfFiles(files), HasTimestamps)

CrossBlocks == found.sessions

SameProject(ss) == \A i, j \in DOMAIN ss : ss[i].project = ss[j].project

(***************************************************************************)
(* C1.  Two sessions of the same project whose gap (next.start minus       *)
(* current.end) is exactly threshold minutes are merged into one output    *)
(* session; two whose gap is threshold + 1 minutes stay two sessions.      *)
(***************************************************************************)
C1_BoundaryGap ==
    (pc = "base_merged" /\ Len(given) = 2 /\ SameProject(given)) =>
        LET current == given[BaseOrder[1]]
            next == given[BaseOrder[2]]
        IN  /\ TimeGap(current, next) = threshold =>
                /\ Len(merged) = 1
                /\ BaseBlock(1).start = current.start
                /\ BaseBlock(1).end = next.end
            /\ TimeGap(current, next) = threshold + 1 =>
                Deref(sessions, merged) = <<current, next>>

C1_Witness ==
    /\ pc = "base_merged"
    /\ Len(given) = 2
    /\ SameProject(given)
    /\ TimeGap(given[BaseOrder[1]], given[BaseOrder[2]]) = threshold
    /\ threshold > 0
    /\ Len(merged) = 1

(***************************************************************************)
(* C2.  After a merge pass every output block covers the whole interval    *)
(* [start, end] of every session it absorbed: the block's end is the       *)
(* maximum of the ends, and never moves backwards.                         *)
(***************************************************************************)
C2_BlockCoversAbsorbed ==
    /\ pc = "base_merged" =>
          \A b \in DOMAIN merged :
             \A k \in DOMAIN BaseMembers(b) :
                LET m == given[BaseMembers(b)[k]] IN
                /\ BaseBlock(b).start <= m.start
                /\ BaseBlock(b).end >= m.end
    /\ pc = "enhanced_done" =>
          \A b \in DOMAIN CrossBlocks :
             \A k \in DOMAIN CrossBlocks[b].sessions :
                LET m == CrossGiven[CrossBlocks[b].sessions[k]].duration
                    d == BlockDurationInfo(all_sessions, CrossBlocks[b])
                IN  /\ d.first_interaction.utc <= m.first_interaction.utc
                    /\ d.last_interaction.utc >= m.last_interaction.utc

(***************************************************************************)
(* C3.  A merge pass conserves the interaction count: each block's count   *)
(* is the sum of the counts of the sessions it absorbed, and the blocks    *)
(* together count what the input sessions counted together.                *)
(***************************************************************************)
C3_InteractionsConserved ==
    /\ pc = "base_merged" =>
          /\ \A b \in DOMAIN merged :
                LET members == BaseMembers(b) IN
                BaseBlock(b).interactions =
                    SumSeq([k \in DOMAIN members |-> given[members[k]].interactions])
          /\ SumSeq([b \in DOMAIN merged |-> BaseBlock(b).interactions]) =
                SumSeq([i \in DOMAIN given |-> given[i].interactions])
    /\ pc = "enhanced_done" =>
          LET before == CrossGiven IN
          /\ \A b \in DOMAIN CrossBlocks :
                CrossBlocks[b].interaction_count =
                    SumSeq([k \in DOMAIN CrossBlocks[b].sessions |->
                       before[CrossBlocks[b].sessions[k]].interaction_count])
          /\ SumSeq([b \in DOMAIN CrossBlocks |->
                        CrossBlocks[b].interaction_count]) =
                SumSeq([i \in DOMAIN before |-> before[i].interaction_count])

C3_Witness ==
    /\ pc = "base_merged"
    /\ \E b \in DOMAIN merged :
          /\ Len(BaseMembers(b)) = 3
          /\ BaseBlock(b).interactions = 5

(***************************************************************************)
(* C4.  The work blocks calculate_session_duration returns are in          *)
(* ascending order of start and do not overlap, a block occupying          *)
(* [start, start + duration_minutes].                                      *)
(***************************************************************************)
BlockFrom(block) == block.start.utc

BlockTo(block) == block.start.utc + 60 * block.duration_minutes

C4_BlocksSortedDisjoint ==
    pc = "duration_done" =>
        \A i, j \in DOMAIN duration_info.work_blocks :
            i < j =>
                /\ BlockFrom(duration_info.work_blocks[i])
                      <= BlockFrom(duration_info.work_blocks[j])
                /\ BlockTo(duration_info.work_blocks[i])
                      <= BlockFrom(duration_info.work_blocks[j])

(***************************************************************************)
(* C5.  The session list one extractor returns is sorted by start and no   *)
(* two of its sessions overlap in time, whatever the projects of the       *)
(* activities.                                                             *)
(***************************************************************************)
C5_ExtractedSortedDisjoint ==
    pc \in {"cursor_done", "claude_done"} =>
        \A i, j \in DOMAIN extracted :
            i < j =>
                /\ extracted[i].start <= extracted[j].start
                /\ extracted[i].end <= extracted[j].start

(***************************************************************************)
(* The attribution of row i of the analysed frame, read off the state: the *)
(* commits of the index inside the window of the session's start, written  *)
(* with the window's arithmetic, and what attribution found for the row.   *)
(***************************************************************************)
Analysed == pc \in {"track_analyzed", "track_reported"}

WindowCommits(i) ==
    SelectSeq(fetched, LAMBDA c :
        /\ tracked[i].start - 60 * window.commit_window_hours_before <= c.timestamp
        /\ c.timestamp <= tracked[i].start + 60 * window.commit_window_hours_after)

Tally(repo, commits) ==
    Cardinality({k \in DOMAIN commits : commits[k].repo = repo})

HighestTally(commits) ==
    {commits[k].repo : k \in {n \in DOMAIN commits :
        \A m \in DOMAIN commits :
            Tally(commits[n].repo, commits) >= Tally(commits[m].repo, commits)}}

Attributed(i) ==
    IF sessions_df[i].commits_in_window > 0 THEN sessions_df[i].identified_repo
                                            ELSE None

(***************************************************************************)
(* C6.  With an empty commit index analyze_sessions completes without      *)
(* raising, finds (None, 0) for every session, and every identified_repo   *)
(* falls back to the session's own project hint.                           *)
(***************************************************************************)
C6_EmptyIndexFallsBack ==
    (fetched = <<>> /\ tracked # <<>> /\ pc # "track_extracted") =>
        /\ Analysed
        /\ \A i \in DOMAIN tracked :
              /\ sessions_df[i].commits_in_window = 0
              /\ sessions_df[i].identified_repo = tracked[i].project

(***************************************************************************)
(* C7.  When a commit falls in the window, the repository returned has the *)
(* highest number of commits in the window, and the count returned is the  *)
(* number of window commits of that repository.                            *)
(***************************************************************************)
C7_CountOfReturnedRepo ==
    Analysed =>
        \A i \in DOMAIN sessions_df :
            WindowCommits(i) # <<>> =>
                /\ sessions_df[i].identified_repo \in HighestTally(WindowCommits(i))
                /\ sessions_df[i].commits_in_window =
                      Tally(sessions_df[i].identified_repo, WindowCommits(i))

(***************************************************************************)
(* C8.  Exactly the commits with session start - hours_before <= t <=      *)
(* session start + hours_after are selected, both bounds inclusive: one    *)
(* commit of repository X inside the window yields (X, 1), and a commit    *)
(* just outside either bound is not counted.                               *)
(***************************************************************************)
C8_InclusiveWindow ==
    Analysed =>
        \A i \in DOMAIN sessions_df :
            /\ sessions_df[i].commits_in_window = Len(WindowCommits(i))
            /\ Len(WindowCommits(i)) = 1 =>
                  sessions_df[i].identified_repo = WindowCommits(i)[1].repo
            /\ Len(WindowCommits(i)) = 0 =>
                  sessions_df[i].identified_repo = tracked[i].project

C8_Witness ==
    /\ Analysed
    /\ Len(tracked) = 2
    /\ tracked[1].start + 1 = tracked[2].start
    /\ fetched = <<Commit("repoX", tracked[1].start
                               - 60 * window.commit_window_hours_before),
                   Commit("repoY", tracked[2].start
                               + 60 * window.commit_window_hours_after)>>
    /\ sessions_df[1].commits_in_window = 1
    /\ sessions_df[1].identified_repo = "repoX"
    /\ sessions_df[2].commits_in_window = 1
    /\ sessions_df[2].identified_repo = "repoY"

(***************************************************************************)
(* C9.  The result is a function of the session time, the commit index and *)
(* the window: repositories that tie for the highest count are told apart  *)
(* by the first-encountered rule, in commit-index order.                   *)
(***************************************************************************)
FirstEncountered(commits) ==
    commits[CHOOSE n \in DOMAIN commits :
               /\ commits[n].repo \in HighestTally(commits)
               /\ \A m \in DOMAIN commits :
                     commits[m].repo \in HighestTally(commits) => n <= m].repo

C9_TieFirstEncountered ==
    Analysed =>
        \A i \in DOMAIN sessions_df :
            WindowCommits(i) # <<>> =>
                sessions_df[i].identified_repo = FirstEncountered(WindowCommits(i))

(***************************************************************************)
(* C10.  Whatever the service of a session, its bucket in the report is    *)
(* the attributed repository, else the session's project hint, else        *)
(* "Unknown", in the by-project view and in the by-day view alike.         *)
(***************************************************************************)
HintedBucket(i) ==
    IF Attributed(i) # None THEN Attributed(i)
    ELSE IF tracked[i].project # None THEN tracked[i].project
    ELSE "Unknown"

\* The bucket the code gives: a Claude session goes by its own project.
ServiceBucket(i) ==
    IF tracked[i].service = "Claude"
    THEN IF tracked[i].project # None THEN tracked[i].project ELSE "Unknown"
    ELSE HintedBucket(i)

\* Both views of the report bucket every session as Bucket, a bucket per row,
\* says.
ReportBucketsBy(Bucket) ==
    /\ DOMAIN report.by_repository = {Bucket[i] : i \in DOMAIN sessions_df}
    /\ \A b \in DOMAIN report.by_repository :
          report.by_repository[b].sessions =
              Cardinality({i \in DOMAIN sessions_df : Bucket[i] = b})
    /\ \A d \in DOMAIN report.by_day :
          \A k \in DOMAIN report.by_day[d] :
              report.by_day[d][k].repo = Bucket[report.by_day[d][k].row]
    /\ \A i \in DOMAIN sessions_df :
          \E d \in DOMAIN report.by_day :
              \E k \in DOMAIN report.by_day[d] : report.by_day[d][k].row = i

C10_BucketWhateverService ==
    pc = "track_reported" => ReportBucketsBy([i \in DOMAIN sessions_df |-> HintedBucket(i)])

\* C10, amended: a session of a service other than Claude is bucketed under
\* the attributed repository, else its project hint, else "Unknown"; a Claude
\* session is bucketed under its own project, else "Unknown", whatever
\* attribution found; both views of the report apply this one rule.
C10_BucketByService ==
    pc = "track_reported" => ReportBucketsBy([i \in DOMAIN sessions_df |-> ServiceBucket(i)])

C10_Witness ==
    /\ pc = "track_reported"
    /\ Len(tracked) = 2
    /\ tracked[1].service = "Claude"
    /\ tracked[1].project = "alpha"
    /\ Attributed(1) = "repoX"
    /\ tracked[2].service = "Cursor"
    /\ Attributed(2) = "repoX"
    /\ DOMAIN report.by_repository = {"alpha", "repoX"}

(***************************************************************************)
(* C11.  Merging is idempotent: merge_consecutive_sessions applied with    *)
(* the same threshold to the list it returned gives back as many sessions, *)
(* each with the same start, end, project and metrics.                     *)
(***************************************************************************)
FirstResult == Deref(first_call.objs, first_call.out)

C11_MergeIdempotent ==
    pc = "base_remerged" => Deref(sessions, second) = FirstResult

C11_Witness ==
    /\ pc = "base_remerged"
    /\ Len(given) = 3
    /\ Len(first_call.out) = 2
    /\ Len(second) = 2
    /\ SameProject(given)

(***************************************************************************)
(* C12.  In the cross-source pass a session that starts exactly 15 minutes *)
(* after the end of the current block is merged into it, whichever source  *)
(* wrote either of them, and one that starts 16 minutes after it starts a  *)
(* new block.                                                              *)
(***************************************************************************)
CrossFirst == CrossGiven[CrossBlocks[1].sessions[1]]

CrossSecond ==
    CrossGiven[IF Len(CrossBlocks) = 1 THEN CrossBlocks[1].sessions[2]
                                       ELSE CrossBlocks[2].sessions[1]]

CrossGap ==
    CrossSecond.duration.first_interaction.utc
        - CrossFirst.duration.last_interaction.utc

C12_MergedAtFifteenMinutes ==
    (pc = "enhanced_done" /\ Len(CrossGiven) = 2) =>
        /\ CrossGap = 15 * 60 => Len(CrossBlocks) = 1
        /\ CrossGap = 16 * 60 => Len(CrossBlocks) = 2

(***************************************************************************)
(* What the claims about the runners speak about.                          *)
(***************************************************************************)
SourceNames == {Extractors[k] : k \in DOMAIN Extractors}

\* The sessions of the sources that returned, in the order of the extractors.
ReturnedSessions ==
    sources["Claude"].sessions \o sources["Cursor"].sessions
        \o sources["Git"].sessions

Occurrences(list, x) == Cardinality({k \in DOMAIN list : list[k] = x})

SameSessions(a, b) ==
    /\ Len(a) = Len(b)
    /\ \A k \in DOMAIN a : Occurrences(a, a[k]) = Occurrences(b, a[k])

SortedByStartTime(list) ==
    \A i, j \in DOMAIN list : i < j => list[i].start <= list[j].start

RunnerState ==
    pc \in {"seq_start", "seq_raised", "track_extracted", "track_exit",
            "track_analyzed", "track_raised", "track_reported",
            "par_collecting", "par_joined", "par_raised"}

RunnerRaised == pc \in {"seq_raised", "track_raised", "par_raised"}

(***************************************************************************)
(* C13.  Empty in, empty out: when every source yields no session, no      *)
(* stage that is run raises, in the sequential and in the parallel runner. *)
(***************************************************************************)
AllSourcesEmpty ==
    \A src \in SourceNames : sources[src].kind # "raises"
                             /\ sources[src].sessions = <<>>

C13_EmptyInEmptyOut ==
    (RunnerState /\ AllSourcesEmpty) => ~RunnerRaised

(***************************************************************************)
(* C15.  In the parallel runner the lines after the pool (the analysis)    *)
(* are not reached before each of the three extraction tasks has returned  *)
(* or raised, and all_sessions is written by the main thread only.         *)
(***************************************************************************)
C15_JoinedBeforeAnalysis ==
    /\ pc \in {"par_joined", "par_raised"} =>
          \A src \in SourceNames : Finished(workers[src])
    /\ pc \in {"par_collecting", "par_joined", "par_raised"} =>
          writers \subseteq {"main"}

C15_Witness ==
    /\ pc = "par_raised"
    /\ yielded = <<"Git", "Cursor", "Claude">>
    /\ workers["Cursor"] = "raised"
    /\ Len(gathered) = 2
    /\ writers = {"main"}

(***************************************************************************)
(* C16.  The list handed to analyze_sessions is sorted by start in both    *)
(* runners, whatever the order in which the extraction tasks complete.     *)
(***************************************************************************)
C16_HandedSorted ==
    /\ pc = "track_extracted" => SortedByStartTime(tracked)
    /\ pc = "par_joined" => SortedByStartTime(gathered)

(***************************************************************************)
(* C17.  When a source raises or is not available, the runner still        *)
(* collects exactly the sessions of the sources that returned, and goes on *)
(* to the analysis and the report.                                         *)
(***************************************************************************)
SomeSourceFailed ==
    \E src \in SourceNames : sources[src].kind \in {"raises", "unavailable"}

C17_FailureRecoveredLocally ==
    (RunnerState /\ pc # "seq_start" /\ SomeSourceFailed) =>
        /\ pc \notin {"seq_raised", "par_raised"}
        /\ pc = "track_extracted" => SameSessions(tracked, ReturnedSessions)
        /\ pc = "par_joined" => SameSessions(gathered, ReturnedSessions)

(***************************************************************************)
(* C14.  _parse_jsonl_file extracts every well-formed record of a file,    *)
(* whichever other lines are malformed: a malformed line is skipped alone  *)
(* and does not stop the lines after it from being read.                   *)
(***************************************************************************)
WellFormedRecords ==
    LET records == SelectSeq(jsonl, LAMBDA line : line.kind = "record")
    IN  [k \in DOMAIN records |-> Entry(records[k].timestamp, "alpha")]

C14_MalformedSkippedAlone ==
    pc = "parse_done" => entries = WellFormedRecords

(***************************************************************************)
(* C18.  merge_consecutive_sessions does not modify the Session objects of *)
(* its input: after the call they are as they were given, and a second     *)
(* call on the same input returns a result equal to the first, no metric   *)
(* counted twice.                                                          *)
(***************************************************************************)
C18_InputLeftUnmodified ==
    /\ pc \in {"base_merged", "base_repeated"} => sessions = given
    /\ pc = "base_repeated" => Deref(sessions, second) = FirstResult

(***************************************************************************)
(* C19.  Every block of the cross-source pass that was assembled from more *)
(* than one session is flagged splittable, its duration.should_split is    *)
(* true, so that generate_clockify_entries presents it as Part 1, Part 2   *)
(* and so on rather than as one continuous entry.                          *)
(***************************************************************************)
C19_AssembledBlockSplittable ==
    pc = "enhanced_done" =>
        \A b \in DOMAIN CrossBlocks :
            Len(CrossBlocks[b].sessions) > 1 =>
                LET parts == generate_clockify_entries(all_sessions, CrossBlocks[b])
                IN  /\ BlockDurationInfo(all_sessions, CrossBlocks[b]).should_split
                    /\ Len(parts) > 1
                    /\ \A k \in DOMAIN parts : parts[k].part = k

(***************************************************************************)
(* C20.  Every work block calculate_session_duration returns has a         *)
(* duration of at least 5 minutes, a block of two or more interactions     *)
(* with the same timestamp included.                                       *)
(***************************************************************************)
C20_BlockAtLeastFiveMinutes ==
    pc = "duration_done" =>
        \A b \in DOMAIN duration_info.work_blocks :
            duration_info.work_blocks[b].duration_minutes >= 5

(***************************************************************************)
(* C22.  merge_consecutive_sessions preserves end >= start: when every     *)
(* session handed over has end >= start, so has every session returned,    *)
(* for every threshold and every order of the input, and the returned list *)
(* is sorted by start.                                                     *)
(***************************************************************************)
C22_EndNotBeforeStart ==
    (pc = "base_merged" /\ \A i \in DOMAIN given : given[i].end >= given[i].start) =>
        LET returned == Deref(sessions, merged) IN
        /\ \A b \in DOMAIN returned : returned[b].end >= returned[b].start
        /\ SortedByStartTime(returned)

\* Three sessions handed over out of order, one absorbed, and the end of the
\* block that absorbed it moved.
C22_Witness ==
    /\ pc = "base_merged"
    /\ Len(given) = 3
    /\ Len(merged) = 2
    /\ \E i, j \in DOMAIN given : i < j /\ given[i].start > given[j].start
    /\ \E b \in DOMAIN merged : sessions[merged[b]].end # given[merged[b]].end

(***************************************************************************)
(* What the claims about the work blocks speak about: the interactions     *)
(* that parse, in the order in which the walk meets them, and the          *)
(* positions in that order at which a work block ends.                     *)
(***************************************************************************)
Walked ==
    LET kept == SortedByTimestamp(SelectSeq(interactions, LAMBDA x : x.valid))
    IN  [k \in DOMAIN kept |-> FromIsoFormat(kept[k])]

WalkGap(k) == Walked[k + 1].utc - Walked[k].utc

BlockEndsAt(b) ==
    SumSeq([c \in 1..b |-> duration_info.work_blocks[c].interaction_count])

CutAfter(k) ==
    \E b \in 1..(Len(duration_info.work_blocks) - 1) : BlockEndsAt(b) = k

AllParse == \A i \in DOMAIN interactions : interactions[i].valid

(***************************************************************************)
(* C23.  calculate_session_duration starts a new work block exactly when   *)
(* the gap between an interaction and the one before it is strictly        *)
(* greater than max_gap: a gap of exactly max_gap stays in the block, and  *)
(* a chain whose consecutive gaps are all <= max_gap is one block however  *)
(* long it is in all.                                                      *)
(***************************************************************************)
C23_CutOnlyWhenGapExceeds ==
    pc = "duration_done" =>
        /\ \A k \in 1..(Len(Walked) - 1) :
              CutAfter(k) <=> WalkGap(k) > 60 * max_gap_minutes
        /\ (Walked # <<>>
              /\ \A k \in 1..(Len(Walked) - 1) : WalkGap(k) <= 60 * max_gap_minutes)
           => Len(duration_info.work_blocks) = 1

\* Three interactions with a gap of exactly max_gap, in one block that is
\* longer than max_gap in all.
C23_Witness ==
    /\ pc = "duration_done"
    /\ AllParse
    /\ Len(Walked) = 3
    /\ \E k \in 1..2 : WalkGap(k) = 60 * max_gap_minutes
    /\ Walked[3].utc - Walked[1].utc > 60 * max_gap_minutes
    /\ Len(duration_info.work_blocks) = 1

(***************************************************************************)
(* C24.  The work block of two or more interactions spans from the         *)
(* earliest timestamp to the latest timestamp plus the 3-minute buffer:    *)
(* its reported end is max(timestamp) + 3 minutes, and its duration is its *)
(* reported end minus its reported start.                                  *)
(***************************************************************************)
C24_EndCarriesBuffer ==
    (pc = "duration_done" /\ AllParse) =>
        \A b \in DOMAIN duration_info.work_blocks :
            LET block == duration_info.work_blocks[b]
                first == BlockEndsAt(b) - block.interaction_count + 1
                latest == CHOOSE t \in {Walked[k].utc : k \in first..BlockEndsAt(b)} :
                              \A k \in first..BlockEndsAt(b) : Walked[k].utc <= t
            IN  block.interaction_count >= 2 =>
                    /\ block.end.utc = latest + BufferSeconds
                    /\ 60 * block.duration_minutes
                          = block.end.utc - block.start.utc

(***************************************************************************)
(* C30.  For a list whose timestamps all parse and whose string order is   *)
(* its time order: there is exactly one gap between each two consecutive   *)
(* work blocks, each gap is longer than max_gap and runs from the last     *)
(* timestamp of the earlier block to the first timestamp of the later one, *)
(* should_split is true exactly when there is more than one block, and the *)
(* interaction counts of the blocks add up to the number of interactions.  *)
(***************************************************************************)
StringOrderIsTimeOrder ==
    \A k \in 1..(Len(Walked) - 1) : Walked[k].utc <= Walked[k + 1].utc

C30_GapsBetweenBlocks ==
    (pc = "duration_done" /\ AllParse /\ StringOrderIsTimeOrder) =>
        LET blocks == duration_info.work_blocks
            gaps == duration_info.gaps
        IN  /\ blocks # <<>> => Len(gaps) = Len(blocks) - 1
            /\ blocks = <<>> => gaps = <<>>
            /\ \A g \in DOMAIN gaps :
                  /\ g < Len(blocks)
                  /\ gaps[g].end.utc - gaps[g].start.utc > 60 * max_gap_minutes
                  /\ gaps[g].start.utc = blocks[g].end.utc
                  /\ gaps[g].end.utc = blocks[g + 1].start.utc
            /\ duration_info.should_split <=> Len(blocks) > 1
            /\ SumSeq([b \in DOMAIN blocks |-> blocks[b].interaction_count])
                  = Len(interactions)

\* Three interactions in two blocks, one of them of two interactions.
C30_Witness ==
    /\ pc = "duration_done"
    /\ AllParse
    /\ StringOrderIsTimeOrder
    /\ Len(interactions) = 3
    /\ Len(duration_info.work_blocks) = 2
    /\ Len(duration_info.gaps) = 1
    /\ duration_info.should_split

(***************************************************************************)
(* C25.  In the result of find_claude_sessions_enhanced the total duration *)
(* is the sum of the duration_minutes calculate_session_duration computed  *)
(* for each per-file session, merged or not, and every entry of a block's  *)
(* sessions list still has its own duration of before the merge.           *)
(***************************************************************************)
C25_TotalIsSumOfFiles ==
    pc = "enhanced_done" =>
        /\ found.total_duration_minutes
              = SumSeq([i \in DOMAIN CrossGiven |->
                           CrossGiven[i].duration.duration_minutes])
        /\ \A b \in DOMAIN CrossBlocks :
              \A k \in DOMAIN CrossBlocks[b].sessions :
                  LET i == CrossBlocks[b].sessions[k] IN
                  all_sessions[i].duration.duration_minutes
                      = CrossGiven[i].duration.duration_minutes

(***************************************************************************)
(* C26.  For every merged block the durations of the entries               *)
(* generate_clockify_entries makes of it add up to the block's             *)
(* duration.duration_minutes, on the split path and on the single-entry    *)
(* path.                                                                   *)
(***************************************************************************)
C26_EntriesAddUpToBlock ==
    pc = "enhanced_done" =>
        \A b \in DOMAIN CrossBlocks :
            LET made == generate_clockify_entries(all_sessions, CrossBlocks[b])
            IN  SumSeq([k \in DOMAIN made |-> made[k].minutes])
                    = BlockDurationInfo(all_sessions, CrossBlocks[b]).duration_minutes

(***************************************************************************)
(* C27.  In the list merge_consecutive_sessions returns no two sessions of *)
(* the same project are within threshold minutes of each other, also when  *)
(* a session of another project sorts between them by start.               *)
(***************************************************************************)
C27_SameProjectApart ==
    pc = "base_merged" =>
        LET returned == Deref(sessions, merged) IN
        \A b, c \in DOMAIN returned :
            (b < c /\ returned[b].project = returned[c].project) =>
                TimeGap(returned[b], returned[c]) > threshold

(***************************************************************************)
(* C29.  In the list the Cursor extractor returns no two sessions of the   *)
(* same project overlap in time, also when an activity of another project  *)
(* lies between them, and the activity_count values of the sessions add up *)
(* to the number of activities the dedup kept.                             *)
(***************************************************************************)
C29_SameProjectDisjoint ==
    pc = "cursor_done" =>
        /\ \A i, j \in DOMAIN extracted :
              (i # j /\ extracted[i].project = extracted[j].project) =>
                  \/ extracted[i].end < extracted[j].start
                  \/ extracted[j].end < extracted[i].start
        /\ SumSeq([i \in DOMAIN extracted |-> extracted[i].activity_count])
              = Len(extract_all_activities(activities))

\* Two sessions of one project returned with a session of another project
\* between them that overlaps the first.
C29_Witness ==
    /\ pc = "cursor_done"
    /\ Len(extracted) = 3
    /\ extracted[1].project = extracted[3].project
    /\ extracted[1].project # extracted[2].project
    /\ extracted[2].start <= extracted[1].end

(***************************************************************************)
(* C28.  get_all_commits(start, end) returns the commits of the requested  *)
(* date range on every call: a later call on the same analyzer with        *)
(* another range returns the commits of the new range, not those fetched   *)
(* for the first.                                                          *)
(***************************************************************************)
C28_RangeOfEveryCall ==
    pc = "git_ready" =>
        \A k \in DOMAIN answered :
            answered[k] = DataFrame(CommitsInRange(fetched, asked[k]))

(***************************************************************************)
(* C21.  Every external command an adapter launches is bounded by a        *)
(* timeout: when the command never returns its source is skipped, and the  *)
(* other sources, the join and the analysis still run, so that the run     *)
(* never stays in the extraction for ever.  The run is in the extraction   *)
(* only while one of its steps can still be taken.                         *)
(***************************************************************************)
C21_ExtractionGoesOn ==
    pc = "par_collecting" => ENABLED NextParallel

=============================================================================
